---- MODULE Spec2Model ----
(***************************************************************************)
(* A model of efb-wechat-mprss: the account directory (data_loader.py and  *)
(* the get_cached_mps caches of the two FastAPI applications), the message *)
(* store reader (db_reader.py) and the RSS renderer (rss_generator.py).    *)
(*                                                                         *)
(* Strings that the code inspects (URLs) are sequences of tokens, so that  *)
(* str.replace, str.startswith and the "in" test are computed on their     *)
(* content: "http://mp.weixin.qq.com/s/a" is                               *)
(* <<"http://", "mp.weixin.qq.com", "/s/a">> and the empty string is <<>>. *)
(* Python's None is the absence of a key, or a record of kind "None".      *)
(* The two block-listed display names of HIDDEN_MP_NAMES are written in    *)
(* ASCII: "WeChatPay" and "WeChatCashier".                                 *)
(***************************************************************************)
EXTENDS Integers, Sequences, FiniteSets, TLC

VARIABLES
    msglog,            \* tgdata.db, table msglog: the stored rows
    call,              \* the arguments of the last get_messages_for_mp call
    rows,              \* cursor.fetchall() of that call
    result,            \* what that call returned, or that it raised
    feed,              \* generate_rss_feed of the returned messages
    wxpy_pkl,          \* the account-list source (wxpy.pkl)
    wxpy_puid_pkl,     \* the id-mapping source (wxpy_puid.pkl)
    mp_cache,          \* mprss/app.py: _mp_cache
    cache_src,         \* history: the sources the current _mp_cache was loaded from
    pending,           \* a get_cached_mps reload between reading the sources and assigning
    resp,              \* the last response of the mprss application
    backend_mp_cache,  \* backend/app.py: _mp_cache
    backend_resp,      \* the last response of the backend application
    opml               \* a generate_opml call: its arguments and its document

reader_vars == <<msglog, call, rows, result, feed>>
mprss_vars == <<mp_cache, cache_src, pending, resp>>
backend_vars == <<backend_mp_cache, backend_resp>>
source_vars == <<wxpy_pkl, wxpy_puid_pkl>>
vars == <<msglog, call, rows, result, feed, wxpy_pkl, wxpy_puid_pkl,
          mp_cache, cache_src, pending, resp, backend_mp_cache, backend_resp, opml>>

\* Bounds of the model
MaxRows == 3
MaxLimit == 3

None == [kind |-> "None"]

Min(a, b) == IF a < b THEN a ELSE b

\* dict.get(key, default)
DictGet(d, key, default) == IF key \in DOMAIN d THEN d[key] ELSE default

\* getattr(obj, name, None) or default
GetAttrOr(obj, name, default) == IF name \in DOMAIN obj THEN obj[name] ELSE default

(***************************************************************************)
(* Strings as token sequences                                              *)
(***************************************************************************)
StartsWith(s, prefix) ==
    /\ Len(s) >= Len(prefix)
    /\ SubSeq(s, 1, Len(prefix)) = prefix

\* needle in s, for a one-token needle
Contains(s, needle) == \E i \in DOMAIN s : s[i] = needle

\* s.replace("http://", "https://"): every occurrence is replaced
ReplaceHttp(s) == [i \in DOMAIN s |-> IF s[i] = "http://" THEN "https://" ELSE s[i]]

MP_PREFIX == <<"https://", "mp.weixin.qq.com">>

(***************************************************************************)
(* The message store: tgdata.db                                            *)
(***************************************************************************)
Puids == {"p1", "p2"}

\* f"blueset.wechat {puid}"
SlaveOriginUid(puid) == <<"blueset.wechat", puid>>

\* payloads of the pickle column
PickleEmpty == [bytes |-> "empty"]
PickleGarbage == [bytes |-> "garbage"]
PickleOf(data) == [bytes |-> "ok", data |-> data]
NotADict == [type |-> "list"]
DictOf(items) == [type |-> "dict", items |-> items]
LinkPickle(attributes) == PickleOf(DictOf([attributes |-> attributes]))

\* values of the time column
TimeIso(t) == [t |-> t, form |-> "iso"]
TimeBad(t) == [t |-> t, form |-> "bad"]
TimeNull == [t |-> 0, form |-> "null"]

Row(puid, msg_type, time, pickle) ==
    [slave_origin_uid |-> SlaveOriginUid(puid), msg_type |-> msg_type,
     time |-> time, pickle |-> pickle]

UrlA_http == <<"http://", "mp.weixin.qq.com", "/s/a">>
UrlA == <<"https://", "mp.weixin.qq.com", "/s/a">>
UrlB == <<"https://", "mp.weixin.qq.com", "/s/b">>
UrlC == <<"https://", "mp.weixin.qq.com", "/s/c">>
UrlOther == <<"https://", "notmp.example.com", "/post">>
UrlLookalike == <<"https://", "mp.weixin.qq.com", ".evil.example", "/post">>
ImgTelegraph == <<"https://", "telegra.ph", "/x">>
ImgPlain == <<"https://", "img.example", "/x.png">>

\* The rows a stored table is made of
RowChoices == <<
    Row("p1", "Link", TimeIso(2), LinkPickle([title |-> "Hi", url |-> UrlA_http])),
    Row("p1", "Link", TimeIso(1), LinkPickle([url |-> UrlA])),
    Row("p1", "Link", TimeIso(2), LinkPickle([title |-> "New", url |-> UrlA, image |-> ImgTelegraph])),
    Row("p1", "Link", TimeBad(1), LinkPickle([title |-> "Hi", url |-> UrlB, image |-> ImgPlain])),
    Row("p1", "Link", TimeNull, LinkPickle([title |-> "Hi", url |-> UrlB])),
    Row("p1", "Link", TimeIso(2), LinkPickle([title |-> "Hi", url |-> UrlOther])),
    Row("p1", "Link", TimeIso(2), LinkPickle([title |-> "Hi", url |-> UrlLookalike])),
    Row("p1", "Link", TimeIso(1), PickleGarbage),
    Row("p1", "Link", TimeIso(2), PickleEmpty),
    Row("p1", "Link", TimeIso(1), PickleOf(DictOf(<<>>))),
    Row("p1", "Link", TimeIso(2), PickleOf(NotADict)),
    Row("p1", "Link", TimeIso(1), LinkPickle([title |-> "Hi"])),
    Row("p1", "Text", TimeIso(2), LinkPickle([title |-> "Hi", url |-> UrlC])),
    Row("p2", "Link", TimeIso(2), LinkPickle([title |-> "Hi", url |-> UrlC])) >>

\* Tables of at most n rows. The table is a bag of rows: the order of the
\* stored rows means nothing to the query (ties of ORDER BY are unordered), so
\* one sequence stands for each bag.
Tables(n) ==
    UNION { { [k \in 1..len |-> RowChoices[f[k]]] :
              f \in { g \in [1..len -> DOMAIN RowChoices] :
                        \A i, j \in 1..len : i < j => g[i] <= g[j] } } :
            len \in 0..n }

\* SELECT ... WHERE slave_origin_uid = ? AND msg_type = 'Link'
Matching(db, slave_origin_uid) ==
    { i \in DOMAIN db : /\ db[i].slave_origin_uid = slave_origin_uid
                        /\ db[i].msg_type = "Link" }

\* ORDER BY time DESC: every order of the matching rows with no row before a
\* later one (NULL sorts last); rows of equal time come in any order
OrderByTimeDesc(db, M) ==
    { [k \in 1..Cardinality(M) |-> db[f[k]]] :
      f \in { g \in [1..Cardinality(M) -> M] :
                /\ \A i, j \in 1..Cardinality(M) : i < j => g[i] # g[j]
                /\ \A i, j \in 1..Cardinality(M) :
                     i < j => db[g[i]].time.t >= db[g[j]].time.t } }

LimitRowsOffByOne(sorted, limit) == SubSeq(sorted, 1, Min(limit + 1, Len(sorted)))

\* LIMIT ?
LimitRows(sorted, limit) == SubSeq(sorted, 1, Min(limit, Len(sorted)))

\* cursor.execute(...); cursor.fetchall(): the possible results of the query
Query(db, slave_origin_uid, limit) ==
    { LimitRows(sorted, limit) : sorted \in OrderByTimeDesc(db, Matching(db, slave_origin_uid)) }

\* pickle.loads(pickle_data) inside try/except: "raise" when it throws
PickleLoads(pickle_data) ==
    IF pickle_data.bytes = "garbage" THEN [kind |-> "raise"]
    ELSE [kind |-> "ok", value |-> pickle_data.data]

\* parse_message_row: a message, None, or an exception leaving the function
parse_message_row(row) ==
    LET pickle_data == row.pickle
        pub_date == row.time
    IN  IF pickle_data.bytes = "empty" THEN None
        ELSE LET loaded == PickleLoads(pickle_data) IN
             IF loaded.kind = "raise" THEN None
             ELSE LET data == loaded.value IN
                  IF data.type # "dict" THEN [kind |-> "raise"]
                  ELSE IF "attributes" \notin DOMAIN data.items THEN None
                  ELSE LET attributes == data.items.attributes IN
                       [kind |-> "msg",
                        msg |-> [title |-> GetAttrOr(attributes, "title", ""),
                                 description |-> GetAttrOr(attributes, "description", ""),
                                 url |-> GetAttrOr(attributes, "url", <<>>),
                                 image |-> GetAttrOr(attributes, "image", <<>>),
                                 pub_date |-> pub_date]]

NormalizeUrlNoReplace(url) == url

\* msg["url"].replace("http://", "https://")
NormalizeUrl(url) == ReplaceHttp(url)

\* url.startswith("https://mp.weixin.qq.com")
IsAllowed(url) == StartsWith(url, MP_PREFIX)

\* the loop of get_messages_for_mp over the fetched rows
RECURSIVE ScanRows(_, _, _, _)
ScanRows(fetched, i, res, seen_urls) ==
    IF i > Len(fetched) THEN [kind |-> "ok", value |-> res]
    ELSE LET parsed == parse_message_row(fetched[i]) IN
         IF parsed.kind = "raise" THEN [kind |-> "raise"]
         ELSE IF parsed.kind = "None" THEN ScanRows(fetched, i + 1, res, seen_urls)
         ELSE IF parsed.msg.url = <<>> THEN ScanRows(fetched, i + 1, res, seen_urls)
         ELSE LET url == NormalizeUrl(parsed.msg.url) IN
              IF ~IsAllowed(url) THEN ScanRows(fetched, i + 1, res, seen_urls)
              ELSE IF url \notin seen_urls
                   THEN ScanRows(fetched, i + 1, Append(res, parsed.msg), seen_urls \cup {url})
                   ELSE ScanRows(fetched, i + 1, res, seen_urls)

\* get_messages_for_mp, given the rows the query fetched
get_messages_for_mp(fetched) == ScanRows(fetched, 1, <<>>, {})

\* has_articles_for_mp: SELECT EXISTS(...)
has_articles_for_mp(db, puid) == Matching(db, SlaveOriginUid(puid)) # {}

\* mprss/db_reader.py: batch_has_articles and batch_article_counts, one pass
\* over the Link rows for many accounts: puid -> bool, puid -> count
batch_has_articles(db, puids) ==
    [p \in { puids[i] : i \in DOMAIN puids } |-> Matching(db, SlaveOriginUid(p)) # {}]

batch_article_counts(db, puids) ==
    [p \in { puids[i] : i \in DOMAIN puids } |-> Cardinality(Matching(db, SlaveOriginUid(p)))]

(***************************************************************************)
(* The RSS renderer                                                        *)
(***************************************************************************)
\* the pubDate element of an item (lines 86-99)
ItemPubDate(msg) ==
    LET pub_date == DictGet(msg, "pub_date", TimeNull) IN
    IF pub_date.form = "null" THEN [present |-> FALSE]
    ELSE IF pub_date.form = "iso"
         THEN [present |-> TRUE, text |-> [of |-> "message", t |-> pub_date.t]]
         ELSE [present |-> TRUE, text |-> [of |-> "now"]]

\* the description element of an item (lines 69-80)
ItemDescription(msg) ==
    LET description == DictGet(msg, "description", "")
        image_url == DictGet(msg, "image", <<>>)
    IN  IF image_url # <<>>
        THEN IF Contains(image_url, "telegra.ph")
             THEN [embed |-> "telegraph", href |-> image_url, text |-> description]
             ELSE [embed |-> "img", href |-> image_url, text |-> description]
        ELSE [embed |-> "none", href |-> <<>>, text |-> description]

\* one <item> of the channel
RenderItem(msg) ==
    [title |-> DictGet(msg, "title", "Untitled"),
     link |-> DictGet(msg, "url", <<>>),
     description |-> ItemDescription(msg),
     guid |-> DictGet(msg, "url", <<>>),
     pubDate |-> ItemPubDate(msg)]

generate_rss_feed(mp_name, mp_signature, messages, feed_url) ==
    [title |-> mp_name,
     link |-> IF feed_url # <<>> THEN feed_url ELSE MP_PREFIX,
     description |-> IF mp_signature # "" THEN <<mp_signature>>
                     ELSE <<mp_name, " - WeChat Public Account">>,
     language |-> "zh-CN",
     atom_self |-> feed_url,
     items |-> [i \in DOMAIN messages |-> RenderItem(messages[i])]]

(***************************************************************************)
(* The account directory: data_loader.py                                   *)
(***************************************************************************)
MpNews == [UserName |-> "@news", NickName |-> "News", Signature |-> "sig", HeadImgUrl |-> "img"]
MpPay == [UserName |-> "@pay", NickName |-> "WeChatPay", Signature |-> "", HeadImgUrl |-> ""]
MpBlog == [UserName |-> "@blog", NickName |-> "Blog", HeadImgUrl |-> ""]

\* the contents wxpy.pkl can have
MpLists == { <<MpNews, MpPay, MpBlog>>, <<MpBlog, MpNews>> }
WxpySources ==
    {[state |-> "missing"], [state |-> "corrupt"]}
    \cup { [state |-> "ok", mpList |-> l] : l \in MpLists }

\* the contents wxpy_puid.pkl can have: data[0], UserName -> puid
UserNameMaps == { ("@news" :> "p1") @@ ("@pay" :> "p2") @@ ("@blog" :> ""),
                  ("@news" :> "p2") @@ ("@blog" :> "p1") }
PuidSources ==
    {[state |-> "missing"], [state |-> "nontuple"]}
    \cup { [state |-> "ok", user_names |-> m] : m \in UserNameMaps }

\* the files as any pickled list and any pickled dict can be: an account can
\* be listed twice and two internal ids can carry one puid
MpRecords == {MpNews, MpPay, MpBlog}
AnyMpLists == { <<a>> : a \in MpRecords } \cup { <<a, b>> : a, b \in MpRecords }
AnyWxpySources ==
    {[state |-> "missing"]} \cup { [state |-> "ok", mpList |-> l] : l \in AnyMpLists }
AnyUserNameMaps == [{"@news", "@blog"} -> {"", "p1", "p2"}]
AnyPuidSources ==
    {[state |-> "nontuple"]} \cup { [state |-> "ok", user_names |-> m] : m \in AnyUserNameMaps }

\* load_wxpy_pkl followed by get_mp_list
get_mp_list(src) ==
    IF src.state = "missing" THEN [kind |-> "raise", error |-> "FileNotFoundError"]
    ELSE IF src.state = "corrupt" THEN [kind |-> "raise", error |-> "UnpicklingError"]
    ELSE [kind |-> "ok", value |-> src.mpList]

\* load_puid_pkl, called by get_puid_map
load_puid_pkl(src) ==
    IF src.state = "missing" THEN [kind |-> "raise", error |-> "FileNotFoundError"]
    ELSE IF src.state = "corrupt" THEN [kind |-> "raise", error |-> "UnpicklingError"]
    ELSE IF src.state = "ok" THEN [kind |-> "ok", value |-> src.user_names]
    ELSE [kind |-> "ok", value |-> <<>>]

HasNoPuidMissingOnly(puid_map, user_name) == user_name \notin DOMAIN puid_map

\* "if not puid": puid_map.get(user_name) is None or empty
HasNoPuid(puid_map, user_name) ==
    \/ user_name \notin DOMAIN puid_map
    \/ puid_map[user_name] = ""

\* the loop of get_mps_with_puid over mp_list
RECURSIVE JoinMps(_, _, _, _)
JoinMps(mp_list, puid_map, i, res) ==
    IF i > Len(mp_list) THEN res
    ELSE LET mp == mp_list[i]
             user_name == DictGet(mp, "UserName", "")
         IN  IF HasNoPuid(puid_map, user_name)
             THEN JoinMps(mp_list, puid_map, i + 1, res)
             ELSE JoinMps(mp_list, puid_map, i + 1,
                          Append(res, [puid |-> puid_map[user_name],
                                       name |-> DictGet(mp, "NickName", ""),
                                       signature |-> DictGet(mp, "Signature", ""),
                                       head_img |-> DictGet(mp, "HeadImgUrl", "")]))

get_mps_with_puid(wxpy_src, puid_src) ==
    LET mp_list == get_mp_list(wxpy_src)
        puid_map == load_puid_pkl(puid_src)
    IN  IF mp_list.kind = "raise" THEN mp_list
        ELSE IF puid_map.kind = "raise" THEN puid_map
        ELSE [kind |-> "ok", value |-> JoinMps(mp_list.value, puid_map.value, 1, <<>>)]

(***************************************************************************)
(* mprss/opml_generator.py                                                 *)
(***************************************************************************)
\* _add_mp_outline: the outline element of one account
add_mp_outline(mp, base_url) ==
    [type |-> "rss",
     text |-> DictGet(mp, "name", "Unknown"),
     title |-> DictGet(mp, "name", "Unknown"),
     description |-> DictGet(mp, "signature", ""),
     xmlUrl |-> base_url \o <<"/api/rss/", DictGet(mp, "puid", "")>>,
     htmlUrl |-> <<"https://", "mp.weixin.qq.com">>]

\* a groups argument: None, or a dict puid -> tag
NoGroups == None
GroupsDict(items) == [kind |-> "dict", items |-> items]

\* "if groups": neither None nor an empty dict
Truthy(groups) == groups.kind = "dict" /\ DOMAIN groups.items # {}

\* groups.get(puid, "All")
TagOf(groups, mp) == DictGet(groups.items, DictGet(mp, "puid", ""), "All")

\* the keys of tag_to_mps, in the order the loop inserted them
RECURSIVE TagKeys(_, _, _, _)
TagKeys(mps, groups, i, keys) ==
    IF i > Len(mps) THEN keys
    ELSE LET tag == TagOf(groups, mps[i]) IN
         IF \E k \in DOMAIN keys : keys[k] = tag
         THEN TagKeys(mps, groups, i + 1, keys)
         ELSE TagKeys(mps, groups, i + 1, Append(keys, tag))

\* tag_to_mps[tag]
TagMembers(mps, groups, tag) ==
    LET HasTag(mp) == TagOf(groups, mp) = tag IN SelectSeq(mps, HasTag)

NotAll(t) == t # "All"

TagOrderAsInserted(keys) == keys

\* tag_order: the keys other than "All", then "All" if it is a key
TagOrder(keys) ==
    SelectSeq(keys, NotAll)
    \o (IF \E k \in DOMAIN keys : keys[k] = "All" THEN <<"All">> ELSE <<>>)

OPML_TITLE == "WeChat MP RSS Feeds"

generate_opml(mps, base_url, title, groups) ==
    [version |-> "2.0",
     title |-> title,
     body |->
        IF Truthy(groups)
        THEN LET tag_order == TagOrder(TagKeys(mps, groups, 1, <<>>)) IN
             [k \in DOMAIN tag_order |->
                [text |-> tag_order[k],
                 children |->
                    LET members == TagMembers(mps, groups, tag_order[k]) IN
                    [j \in DOMAIN members |-> add_mp_outline(members[j], base_url)]]]
        ELSE [k \in DOMAIN mps |-> add_mp_outline(mps[k], base_url)]]

\* the arguments generate_opml is called with
MaxAccounts == 3
OpmlAccounts ==
    { [puid |-> "p1", name |-> "News", signature |-> "sig", head_img |-> "img"],
      [puid |-> "p2", name |-> "Blog", signature |-> "", head_img |-> ""],
      [puid |-> "p3", name |-> "Docs", signature |-> "", head_img |-> ""] }
OpmlAccountLists == UNION { [1..n -> OpmlAccounts] : n \in 0..MaxAccounts }
OpmlTags == {"Tech", "All", "Life"}
OpmlGroups ==
    {NoGroups}
    \cup { GroupsDict(items) :
           items \in UNION { [D -> OpmlTags] : D \in SUBSET {"p1", "p2", "p3"} } }
BaseUrl == <<"http://", "testserver">>

\* generate_opml returns the document of the call it was entered with
render_opml ==
    /\ opml.kind = "call"
    /\ opml' = [kind |-> "returned", mps |-> opml.mps, groups |-> opml.groups,
                doc |-> generate_opml(opml.mps, BaseUrl, OPML_TITLE, opml.groups)]
    /\ UNCHANGED <<reader_vars, source_vars, mprss_vars, backend_vars>>

(***************************************************************************)
(* mprss/app.py                                                            *)
(***************************************************************************)
HIDDEN_MP_NAMES == {"WeChatPay", "WeChatCashier"}

NotHidden(mp) == mp.name \notin HIDDEN_MP_NAMES

FilterHiddenNone(all_mps) == all_mps

\* [mp for mp in all_mps if mp["name"] not in HIDDEN_MP_NAMES]
FilterHidden(all_mps) == SelectSeq(all_mps, NotHidden)

NeedsReloadAlways(cache, force_reload) == TRUE

\* "if _mp_cache is None or force_reload"
NeedsReload(cache, force_reload) == cache.kind = "None" \/ force_reload

FindMpFirst(mps, puid) ==
    IF mps = <<>> THEN None ELSE [kind |-> "mp", value |-> mps[1]]

\* next((mp for mp in mps if mp["puid"] == puid), None)
FindMp(mps, puid) ==
    LET hits == { i \in DOMAIN mps : mps[i].puid = puid } IN
    IF hits = {} THEN None
    ELSE [kind |-> "mp", value |-> mps[CHOOSE i \in hits : \A j \in hits : i <= j]]

\* the MPInfo response model of mprss/app.py
MPInfo(mp) == [puid |-> mp.puid, name |-> mp.name, signature |-> mp.signature]

ReqPuids == Puids
FeedUrl(puid) == <<"http://", "testserver", "/api/rss/", puid>>

Requests ==
    { [endpoint |-> "list_mps", refresh |-> r] : r \in BOOLEAN }
    \cup { [endpoint |-> "get_rss_feed", puid |-> p, limit |-> l] :
           p \in ReqPuids, l \in 1..MaxLimit }
    \cup { [endpoint |-> "check_has_articles", puid |-> p] : p \in ReqPuids }

\* the requests of the batch and OPML endpoints; puids is body.puids, <<>>
\* when the body or the list is omitted or empty
BatchRequests ==
    { [endpoint |-> "check_has_articles_batch"], [endpoint |-> "get_article_counts_batch"] }
    \cup { [endpoint |-> "export_opml", puids |-> ps] : ps \in {<<>>, <<"p1">>} }

\* the force_reload argument the handler passes to get_cached_mps
ForceReload(req) == req.endpoint = "list_mps" /\ req.refresh

\* what a handler does with the list get_cached_mps returned
Respond(req, mps, concurrent) ==
    IF req.endpoint = "list_mps"
    THEN /\ resp' = [endpoint |-> "list_mps", status |-> 200,
                     concurrent |-> concurrent,
                     body |-> [i \in DOMAIN mps |-> MPInfo(mps[i])]]
         /\ UNCHANGED <<call, rows, result, feed>>
    ELSE IF req.endpoint \in {"check_has_articles_batch", "get_article_counts_batch"}
    THEN LET puids == [i \in DOMAIN mps |-> mps[i].puid] IN
         /\ resp' = [endpoint |-> req.endpoint, status |-> 200,
                     concurrent |-> concurrent, puids |-> puids,
                     body |-> IF req.endpoint = "check_has_articles_batch"
                              THEN batch_has_articles(msglog, puids)
                              ELSE batch_article_counts(msglog, puids)]
         /\ UNCHANGED <<call, rows, result, feed>>
    ELSE IF req.endpoint = "export_opml"
    THEN LET InPuidSet(mp) == \E i \in DOMAIN req.puids : req.puids[i] = mp.puid
             selected == IF req.puids # <<>> THEN SelectSeq(mps, InPuidSet) ELSE mps
         IN  /\ resp' = [endpoint |-> req.endpoint, status |-> 200,
                         concurrent |-> concurrent,
                         body |-> generate_opml(selected, BaseUrl, OPML_TITLE, NoGroups)]
             /\ UNCHANGED <<call, rows, result, feed>>
    ELSE LET mp_info == FindMp(mps, req.puid) IN
         IF mp_info.kind = "None"
         THEN /\ resp' = [endpoint |-> req.endpoint, status |-> 404,
                          concurrent |-> concurrent, puid |-> req.puid]
              /\ UNCHANGED <<call, rows, result, feed>>
         ELSE IF req.endpoint = "check_has_articles"
         THEN /\ call' = [kind |-> "has_articles_for_mp", puid |-> req.puid]
              /\ resp' = [endpoint |-> req.endpoint, status |-> 200,
                          concurrent |-> concurrent, puid |-> req.puid,
                          body |-> [has_articles |-> has_articles_for_mp(msglog, req.puid)]]
              /\ UNCHANGED <<rows, result, feed>>
         ELSE \E fetched \in Query(msglog, SlaveOriginUid(req.puid), req.limit) :
              LET messages == get_messages_for_mp(fetched) IN
              /\ call' = [kind |-> "get_messages_for_mp", puid |-> req.puid,
                          limit |-> req.limit]
              /\ rows' = fetched
              /\ result' = messages
              /\ feed' = IF messages.kind = "ok"
                         THEN [kind |-> "xml",
                               value |-> generate_rss_feed(mp_info.value.name,
                                                           mp_info.value.signature,
                                                           messages.value,
                                                           FeedUrl(req.puid))]
                         ELSE None
              /\ resp' = [endpoint |-> req.endpoint,
                          status |-> IF messages.kind = "ok" THEN 200 ELSE 500,
                          concurrent |-> concurrent, puid |-> req.puid]

\* get_cached_mps finds the cache usable: the handler runs on it
ServeFromCache(req) ==
    /\ ~NeedsReload(mp_cache, ForceReload(req))
    /\ Respond(req, mp_cache.value, pending.kind = "reload")
    /\ UNCHANGED <<mp_cache, cache_src, pending>>

ReloadFailsDropsCache(req) ==
    /\ pending.kind = "None"
    /\ NeedsReload(mp_cache, ForceReload(req))
    /\ get_mps_with_puid(wxpy_pkl, wxpy_puid_pkl).kind = "raise"
    /\ mp_cache' = None
    /\ resp' = [endpoint |-> req.endpoint, status |-> 500,
                concurrent |-> FALSE,
                error |-> get_mps_with_puid(wxpy_pkl, wxpy_puid_pkl).error]
    /\ UNCHANGED <<cache_src, pending, call, rows, result, feed>>

\* get_cached_mps reloads and get_mps_with_puid raises: the request fails
ReloadFails(req) ==
    /\ pending.kind = "None"
    /\ NeedsReload(mp_cache, ForceReload(req))
    /\ get_mps_with_puid(wxpy_pkl, wxpy_puid_pkl).kind = "raise"
    /\ resp' = [endpoint |-> req.endpoint, status |-> 500,
                concurrent |-> FALSE,
                error |-> get_mps_with_puid(wxpy_pkl, wxpy_puid_pkl).error]
    /\ UNCHANGED <<mp_cache, cache_src, pending, call, rows, result, feed>>

\* get_cached_mps reloads: line 46 has read the sources into all_mps
ReloadBegins(req) ==
    /\ pending.kind = "None"
    /\ NeedsReload(mp_cache, ForceReload(req))
    /\ get_mps_with_puid(wxpy_pkl, wxpy_puid_pkl).kind = "ok"
    /\ pending' = [kind |-> "reload", req |-> req,
                   all_mps |-> get_mps_with_puid(wxpy_pkl, wxpy_puid_pkl).value,
                   src |-> <<wxpy_pkl, wxpy_puid_pkl>>]
    /\ UNCHANGED <<mp_cache, cache_src, resp, call, rows, result, feed>>

\* line 51 assigns _mp_cache, line 52 returns it and the handler runs on it
ReloadCommits ==
    /\ pending.kind = "reload"
    /\ mp_cache' = [kind |-> "list", value |-> FilterHidden(pending.all_mps)]
    /\ cache_src' = pending.src
    /\ pending' = None
    /\ Respond(pending.req, mp_cache'.value, FALSE)

list_mps ==
    \E req \in Requests :
        /\ req.endpoint = "list_mps"
        /\ (ServeFromCache(req) \/ ReloadFails(req) \/ ReloadBegins(req))
        /\ UNCHANGED <<msglog, source_vars, backend_vars, opml>>

get_rss_feed ==
    \E req \in Requests :
        /\ req.endpoint = "get_rss_feed"
        /\ (ServeFromCache(req) \/ ReloadFails(req) \/ ReloadBegins(req))
        /\ UNCHANGED <<msglog, source_vars, backend_vars, opml>>

check_has_articles ==
    \E req \in Requests :
        /\ req.endpoint = "check_has_articles"
        /\ (ServeFromCache(req) \/ ReloadFails(req) \/ ReloadBegins(req))
        /\ UNCHANGED <<msglog, source_vars, backend_vars, opml>>

check_has_articles_batch ==
    \E req \in BatchRequests :
        /\ req.endpoint = "check_has_articles_batch"
        /\ (ServeFromCache(req) \/ ReloadFails(req) \/ ReloadBegins(req))
        /\ UNCHANGED <<msglog, source_vars, backend_vars, opml>>

get_article_counts_batch ==
    \E req \in BatchRequests :
        /\ req.endpoint = "get_article_counts_batch"
        /\ (ServeFromCache(req) \/ ReloadFails(req) \/ ReloadBegins(req))
        /\ UNCHANGED <<msglog, source_vars, backend_vars, opml>>

export_opml ==
    \E req \in BatchRequests :
        /\ req.endpoint = "export_opml"
        /\ (ServeFromCache(req) \/ ReloadFails(req) \/ ReloadBegins(req))
        /\ UNCHANGED <<msglog, source_vars, backend_vars, opml>>

get_cached_mps_assign ==
    /\ ReloadCommits
    /\ UNCHANGED <<msglog, source_vars, backend_vars, opml>>

\* the ingestion pipeline rewrites a source file
SourceChanges ==
    /\ \/ wxpy_pkl' \in WxpySources /\ UNCHANGED wxpy_puid_pkl
       \/ wxpy_puid_pkl' \in PuidSources /\ UNCHANGED wxpy_pkl
    /\ UNCHANGED <<reader_vars, mprss_vars, backend_vars, opml>>

(***************************************************************************)
(* backend/app.py                                                          *)
(***************************************************************************)
\* get_cached_mps of backend/app.py: the cache after the call, or the exception
backend_get_cached_mps(cache, force_reload, wxpy_src, puid_src) ==
    IF cache.kind = "None" \/ force_reload
    THEN LET all_mps == get_mps_with_puid(wxpy_src, puid_src) IN
         IF all_mps.kind = "raise" THEN all_mps
         ELSE [kind |-> "list", value |-> all_mps.value]
    ELSE cache

backend_list_mps ==
    \E refresh \in BOOLEAN :
        LET got == backend_get_cached_mps(backend_mp_cache, refresh, wxpy_pkl, wxpy_puid_pkl) IN
        /\ IF got.kind = "raise"
           THEN /\ backend_resp' = [endpoint |-> "list_mps", status |-> 500, mps |-> <<>>]
                /\ UNCHANGED backend_mp_cache
           ELSE /\ backend_mp_cache' = got
                /\ backend_resp' = [endpoint |-> "list_mps", status |-> 200,
                                    mps |-> got.value]
        /\ UNCHANGED <<reader_vars, source_vars, mprss_vars, opml>>

backend_get_rss_feed ==
    \E puid \in ReqPuids, limit \in 1..MaxLimit :
        LET got == backend_get_cached_mps(backend_mp_cache, FALSE, wxpy_pkl, wxpy_puid_pkl) IN
        /\ UNCHANGED <<msglog, source_vars, mprss_vars, opml>>
        /\ IF got.kind = "raise"
           THEN /\ backend_resp' = [endpoint |-> "get_rss_feed", status |-> 500, mps |-> <<>>]
                /\ UNCHANGED <<backend_mp_cache, call, rows, result, feed>>
           ELSE /\ backend_mp_cache' = got
                /\ LET mp_info == FindMp(got.value, puid) IN
                   IF mp_info.kind = "None"
                   THEN /\ backend_resp' = [endpoint |-> "get_rss_feed", status |-> 404,
                                            mps |-> got.value]
                        /\ UNCHANGED <<call, rows, result, feed>>
                   ELSE \E fetched \in Query(msglog, SlaveOriginUid(puid), limit) :
                        LET messages == get_messages_for_mp(fetched) IN
                        /\ call' = [kind |-> "get_messages_for_mp", puid |-> puid,
                                    limit |-> limit]
                        /\ rows' = fetched
                        /\ result' = messages
                        /\ feed' = IF messages.kind = "ok"
                                   THEN [kind |-> "xml",
                                         value |-> generate_rss_feed(mp_info.value.name,
                                                                     mp_info.value.signature,
                                                                     messages.value,
                                                                     FeedUrl(puid))]
                                   ELSE None
                        /\ backend_resp' = [endpoint |-> "get_rss_feed",
                                            status |-> IF messages.kind = "ok" THEN 200 ELSE 500,
                                            mps |-> got.value]

(***************************************************************************)
(* The message store reader and the renderer on their own                  *)
(***************************************************************************)
\* the accounts the feeds of the reader runs are rendered for
ReaderAccount(puid) ==
    IF puid = "p1" THEN [puid |-> "p1", name |-> "News", signature |-> "sig"]
    ELSE [puid |-> puid, name |-> "Blog", signature |-> ""]

\* lines 91-105 of get_rss_feed: the store is read and the feed rendered
read_and_render ==
    /\ \E puid \in Puids, limit \in 1..MaxLimit :
       \E fetched \in Query(msglog, SlaveOriginUid(puid), limit) :
          LET messages == get_messages_for_mp(fetched) IN
          /\ call' = [kind |-> "get_messages_for_mp", puid |-> puid, limit |-> limit]
          /\ rows' = fetched
          /\ result' = messages
          /\ feed' = IF messages.kind = "ok"
                     THEN [kind |-> "xml",
                           value |-> generate_rss_feed(ReaderAccount(puid).name,
                                                       ReaderAccount(puid).signature,
                                                       messages.value,
                                                       IF puid = "p1" THEN FeedUrl(puid) ELSE <<>>)]
                     ELSE None
    /\ UNCHANGED <<msglog, source_vars, mprss_vars, backend_vars, opml>>

(***************************************************************************)
(* Specifications                                                          *)
(***************************************************************************)
\* the message logs the applications run on
ServiceLogs == { <<RowChoices[1], RowChoices[2]>> }

InitCommon ==
    /\ call = None
    /\ rows = <<>>
    /\ result = None
    /\ feed = None
    /\ mp_cache = None
    /\ cache_src = None
    /\ pending = None
    /\ resp = None
    /\ backend_mp_cache = None
    /\ backend_resp = None
    /\ opml = None

\* the mprss application
Init ==
    /\ msglog \in ServiceLogs
    /\ wxpy_pkl \in WxpySources
    /\ wxpy_puid_pkl \in PuidSources
    /\ InitCommon

Next ==
    \/ list_mps
    \/ get_rss_feed
    \/ check_has_articles
    \/ get_cached_mps_assign
    \/ SourceChanges

Spec == Init /\ [][Next]_vars

\* the mprss application with its batch and OPML endpoints
NextCache ==
    \/ list_mps
    \/ get_rss_feed
    \/ check_has_articles
    \/ check_has_articles_batch
    \/ get_article_counts_batch
    \/ export_opml
    \/ get_cached_mps_assign
    \/ SourceChanges

SpecCache == Init /\ [][NextCache]_vars

\* the backend application
NextBackend ==
    \/ backend_list_mps
    \/ backend_get_rss_feed
    \/ SourceChanges

SpecBackend == Init /\ [][NextBackend]_vars

\* the message store reader and the renderer, over every stored table
InitReader ==
    /\ msglog \in Tables(MaxRows)
    /\ wxpy_pkl = [state |-> "missing"]
    /\ wxpy_puid_pkl = [state |-> "missing"]
    /\ InitCommon

NextReader == read_and_render

SpecReader == InitReader /\ [][NextReader]_vars

\* the mprss application started on any pair of source files
InitLoad ==
    /\ msglog \in ServiceLogs
    /\ wxpy_pkl \in AnyWxpySources
    /\ wxpy_puid_pkl \in AnyPuidSources
    /\ InitCommon

NextLoad ==
    \/ list_mps
    \/ get_rss_feed
    \/ check_has_articles
    \/ get_cached_mps_assign

SpecLoad == InitLoad /\ [][NextLoad]_vars

\* the OPML renderer on its own
InitOpml ==
    /\ msglog \in ServiceLogs
    /\ wxpy_pkl = [state |-> "missing"]
    /\ wxpy_puid_pkl = [state |-> "missing"]
    /\ call = None /\ rows = <<>> /\ result = None /\ feed = None
    /\ mp_cache = None /\ cache_src = None /\ pending = None /\ resp = None
    /\ backend_mp_cache = None /\ backend_resp = None
    /\ opml \in { [kind |-> "call", mps |-> mps, groups |-> groups] :
                   mps \in OpmlAccountLists, groups \in OpmlGroups }

NextOpml == render_opml

SpecOpml == InitOpml /\ [][NextOpml]_vars

(***************************************************************************)
(* Vocabulary of the properties, stated on the stored data itself          *)
(***************************************************************************)
\* u and v are equal once "http://" is read as "https://"
SameNormalized(u, v) ==
    /\ Len(u) = Len(v)
    /\ \A i \in DOMAIN u : u[i] = v[i] \/ {u[i], v[i]} = {"http://", "https://"}

\* the normalized form of u starts with "https://mp.weixin.qq.com"
OnAllowList(u) ==
    /\ Len(u) >= 2
    /\ u[1] \in {"http://", "https://"}
    /\ u[2] = "mp.weixin.qq.com"

PathTokens == {"/s/a", "/s/b", "/s/c", "/post"}

\* the host of a URL: what stands between the scheme and the path
HostOf(u) ==
    LET paths == { i \in DOMAIN u : u[i] \in PathTokens }
        stop == IF paths = {} THEN Len(u) + 1 ELSE CHOOSE i \in paths : \A j \in paths : i <= j
    IN  SubSeq(u, 2, stop - 1)

\* the payload is a pickled mapping with an "attributes" entry
Decodes(row) ==
    /\ row.pickle.bytes = "ok"
    /\ row.pickle.data.type = "dict"
    /\ "attributes" \in DOMAIN row.pickle.data.items

StoredAttr(row, name, default) ==
    IF Decodes(row) /\ name \in DOMAIN row.pickle.data.items.attributes
    THEN row.pickle.data.items.attributes[name]
    ELSE default

StoredUrl(row) == StoredAttr(row, "url", <<>>)

\* the message a decodable row stands for
StoredMessage(row) ==
    [title |-> StoredAttr(row, "title", ""), description |-> StoredAttr(row, "description", ""),
     url |-> StoredUrl(row), image |-> StoredAttr(row, "image", <<>>), pub_date |-> row.time]

Qualifies(row) == StoredUrl(row) # <<>> /\ OnAllowList(StoredUrl(row))

\* the rows of a scan that are the first of their normalized URL among the qualifying rows
FirstSeen(scan) ==
    { i \in DOMAIN scan :
        /\ Qualifies(scan[i])
        /\ \A j \in 1..(i - 1) :
             ~(Qualifies(scan[j]) /\ SameNormalized(StoredUrl(scan[j]), StoredUrl(scan[i]))) }

\* the k-th smallest element of a set of numbers
Kth(S, k) == CHOOSE i \in S : Cardinality({ j \in S : j <= i }) = k

\* the messages of the first-seen rows, in scan order
FirstSeenMessages(scan) ==
    [k \in 1..Cardinality(FirstSeen(scan)) |-> StoredMessage(scan[Kth(FirstSeen(scan), k)])]

Returned == call.kind = "get_messages_for_mp" /\ result.kind = "ok"

\* the rows of the scan whose URL normalizes like that of row i
Group(i) ==
    { j \in DOMAIN rows : /\ StoredUrl(rows[j]) # <<>>
                          /\ SameNormalized(StoredUrl(rows[j]), StoredUrl(rows[i])) }

ReturnedLike(u) == { k \in DOMAIN result.value : SameNormalized(result.value[k].url, u) }

First(S) == CHOOSE i \in S : \A j \in S : i <= j

(***************************************************************************)
(* C1                                                                      *)
(***************************************************************************)
\* C1 as stated: whenever two or more scanned rows have URLs that are equal
\* after normalization, the returned list holds exactly one of them, the first
\* of the scan (the newest).
C1_ExactlyOneOfEveryGroup ==
    Returned =>
        \A i \in DOMAIN rows :
            (StoredUrl(rows[i]) # <<>> /\ Cardinality(Group(i)) >= 2) =>
                /\ Cardinality(ReturnedLike(StoredUrl(rows[i]))) = 1
                /\ \A k \in ReturnedLike(StoredUrl(rows[i])) :
                       result.value[k] = StoredMessage(rows[First(Group(i))])

\* C1 amended: whenever get_messages_for_mp returns, of the scanned rows whose
\* URLs are equal after normalization the list holds exactly one, the first of
\* the scan (the newest), if that URL is on the allow-list, and none of them if
\* it is not; no two returned messages share a normalized URL.
C1_FirstSeenWins ==
    Returned =>
        /\ \A i \in DOMAIN rows :
               (StoredUrl(rows[i]) # <<>> /\ Cardinality(Group(i)) >= 2) =>
                   IF OnAllowList(StoredUrl(rows[i]))
                   THEN /\ Cardinality(ReturnedLike(StoredUrl(rows[i]))) = 1
                        /\ \A k \in ReturnedLike(StoredUrl(rows[i])) :
                               result.value[k] = StoredMessage(rows[First(Group(i))])
                   ELSE ReturnedLike(StoredUrl(rows[i])) = {}
        /\ \A k, l \in DOMAIN result.value :
               k # l => ~SameNormalized(result.value[k].url, result.value[l].url)

\* an http:// row is scanned before an https:// row of the same article and
\* one message came back
C1_Witness ==
    /\ Returned
    /\ Len(result.value) = 1
    /\ \E i, j \in DOMAIN rows :
           /\ i < j
           /\ StoredUrl(rows[i]) = UrlA_http
           /\ StoredUrl(rows[j]) = UrlA

(***************************************************************************)
(* C2                                                                      *)
(***************************************************************************)
\* C2: every returned message, and every item of the rendered feed, has a
\* non-empty URL whose normalized form starts with https://mp.weixin.qq.com,
\* and none is under another host than mp.weixin.qq.com.
C2_AllowList ==
    /\ Returned =>
           \A k \in DOMAIN result.value :
               /\ result.value[k].url # <<>>
               /\ OnAllowList(result.value[k].url)
               /\ HostOf(result.value[k].url) = <<"mp.weixin.qq.com">>
    /\ feed.kind = "xml" =>
           \A k \in DOMAIN feed.value.items :
               /\ OnAllowList(feed.value.items[k].link)
               /\ HostOf(feed.value.items[k].link) = <<"mp.weixin.qq.com">>

(***************************************************************************)
(* C3                                                                      *)
(***************************************************************************)
Count(seq, x) == Cardinality({ i \in DOMAIN seq : seq[i] = x })

\* the fetched rows are the first `limit` Link rows of the account, newest first
FetchedIsWindow ==
    LET M == Matching(msglog, SlaveOriginUid(call.puid))
        stored == [k \in 1..Cardinality(M) |-> msglog[Kth(M, k)]]
    IN  /\ Len(rows) = Min(call.limit, Cardinality(M))
        /\ \A k \in DOMAIN rows : Count(rows, rows[k]) <= Count(stored, rows[k])
        /\ \A k, l \in DOMAIN rows : k < l => rows[k].time.t >= rows[l].time.t
        /\ \A i \in M : Count(rows, msglog[i]) < Count(stored, msglog[i]) =>
               \A k \in DOMAIN rows : rows[k].time.t >= msglog[i].time.t

\* C3: for every limit >= 1 the result has at most limit messages, newest
\* first, and is the decode / allow-list / dedup pipeline applied to the first
\* `limit` Link rows of the account in descending time order.
C3_CapBeforeFilter ==
    call.kind = "get_messages_for_mp" =>
        /\ call.limit >= 1
        /\ FetchedIsWindow
        /\ result.kind = "ok" =>
               /\ Len(result.value) <= call.limit
               /\ result.value = FirstSeenMessages(rows)
               /\ \A k, l \in DOMAIN result.value :
                      k < l => result.value[k].pub_date.t >= result.value[l].pub_date.t

\* fewer than `limit` messages came back although a qualifying row with
\* another URL is stored beyond the window
C3_Witness ==
    /\ Returned
    /\ Len(result.value) < call.limit
    /\ \E i \in Matching(msglog, SlaveOriginUid(call.puid)) :
           /\ Qualifies(msglog[i])
           /\ ReturnedLike(StoredUrl(msglog[i])) = {}

(***************************************************************************)
(* C8                                                                      *)
(***************************************************************************)
\* the payload is empty, does not unpickle, or is no mapping with an
\* "attributes" entry
CorruptRow(row) == ~Decodes(row)

\* C8: parse_message_row skips every corrupt row without raising, and
\* get_messages_for_mp returns what it returns with those rows removed.
C8_CorruptRowsSkipped ==
    call.kind = "get_messages_for_mp" =>
        /\ \A i \in DOMAIN rows : CorruptRow(rows[i]) => parse_message_row(rows[i]) = None
        /\ result = get_messages_for_mp(SelectSeq(rows, Decodes))

(***************************************************************************)
(* C10                                                                     *)
(***************************************************************************)
\* C10: every item of a rendered feed has a non-empty title: "Untitled" when
\* the message's title is empty, the message's title otherwise.
C10_UntitledDefault ==
    (Returned /\ feed.kind = "xml") =>
        /\ Len(feed.value.items) = Len(result.value)
        /\ \A k \in DOMAIN feed.value.items :
               /\ feed.value.items[k].title # ""
               /\ feed.value.items[k].title =
                      IF result.value[k].title = "" THEN "Untitled"
                      ELSE result.value[k].title

(***************************************************************************)
(* Vocabulary of the directory properties, stated on the sources           *)
(***************************************************************************)
FieldOr(mp, field) == IF field \in DOMAIN mp THEN mp[field] ELSE ""

\* the puid the mapping source gives an internal id; "" when it gives none
MappedPuid(puid_src, user_name) ==
    IF puid_src.state = "ok" /\ user_name \in DOMAIN puid_src.user_names
    THEN puid_src.user_names[user_name]
    ELSE ""

Unreadable(src) == src.state \in {"missing", "corrupt"}

BlockList == {"WeChatPay", "WeChatCashier"}

\* the accounts of the list that are mapped and not block-listed
Listed(wxpy_src, puid_src) ==
    { j \in DOMAIN wxpy_src.mpList :
        /\ MappedPuid(puid_src, FieldOr(wxpy_src.mpList[j], "UserName")) # ""
        /\ FieldOr(wxpy_src.mpList[j], "NickName") \notin BlockList }

\* the complete directory of a pair of readable sources
ExpectedDirectory(wxpy_src, puid_src) ==
    [k \in 1..Cardinality(Listed(wxpy_src, puid_src)) |->
        LET mp == wxpy_src.mpList[Kth(Listed(wxpy_src, puid_src), k)] IN
        [puid |-> MappedPuid(puid_src, FieldOr(mp, "UserName")),
         name |-> FieldOr(mp, "NickName"),
         signature |-> FieldOr(mp, "Signature"),
         head_img |-> FieldOr(mp, "HeadImgUrl")]]

Listing(mps) == [i \in DOMAIN mps |-> [puid |-> mps[i].puid, name |-> mps[i].name,
                                       signature |-> mps[i].signature]]

\* a handler of the mprss application gets its account list and answers req
Answers(req) == ServeFromCache(req) \/ (ReloadCommits /\ pending.req = req)

HasPuid(mps, puid) == \E i \in DOMAIN mps : mps[i].puid = puid

(***************************************************************************)
(* C4                                                                      *)
(***************************************************************************)
\* every cached account is an account of the loaded list whose internal id the
\* loaded mapping sends to that non-empty puid, and no account left without a
\* puid is cached
CachedAreMapped ==
    mp_cache.kind = "list" =>
        LET accounts == cache_src[1].mpList
            mapping == cache_src[2]
        IN  /\ \A i \in DOMAIN mp_cache.value :
                   /\ mp_cache.value[i].puid # ""
                   /\ \E j \in DOMAIN accounts :
                          /\ MappedPuid(mapping, FieldOr(accounts[j], "UserName"))
                               = mp_cache.value[i].puid
                          /\ FieldOr(accounts[j], "NickName") = mp_cache.value[i].name
            /\ \A j \in DOMAIN accounts :
                   MappedPuid(mapping, FieldOr(accounts[j], "UserName")) = "" =>
                       \A i \in DOMAIN mp_cache.value :
                           mp_cache.value[i].name # FieldOr(accounts[j], "NickName")

\* C4: after any sequence of loads and refreshes no account without an id
\* mapping (or mapped to an empty puid) is in the cached directory; the
\* /api/mps listing is the cached directory and a lookup by puid that is not
\* answered not-found found its account in the cached directory.
C4_UnmappedUnaddressable ==
    /\ []CachedAreMapped
    /\ [][\A req \in Requests : Answers(req) =>
             IF req.endpoint = "list_mps"
             THEN resp'.body = Listing(mp_cache'.value)
             ELSE resp'.status # 404 => HasPuid(mp_cache'.value, req.puid)]_vars

\* a directory is cached and listed whose sources hold an account without
\* mapping entry and one mapped to the empty puid
C4_Witness ==
    /\ mp_cache.kind = "list"
    /\ mp_cache.value # <<>>
    /\ resp.endpoint = "list_mps" /\ resp.status = 200 /\ resp.body # <<>>
    /\ \E j \in DOMAIN cache_src[1].mpList :
           /\ cache_src[2].state = "ok"
           /\ FieldOr(cache_src[1].mpList[j], "UserName") \in DOMAIN cache_src[2].user_names
           /\ MappedPuid(cache_src[2], FieldOr(cache_src[1].mpList[j], "UserName")) = ""
    /\ \E j \in DOMAIN cache_src[1].mpList :
           MappedPuid(cache_src[2], FieldOr(cache_src[1].mpList[j], "UserName")) # ""

(***************************************************************************)
(* C5                                                                      *)
(***************************************************************************)
\* C5: no account whose display name is in the block-list is in a directory
\* cache of the repository's applications, whatever its mapping.
C5_BlockListExcluded ==
    /\ mp_cache.kind = "list" =>
           \A i \in DOMAIN mp_cache.value : mp_cache.value[i].name \notin BlockList
    /\ backend_mp_cache.kind = "list" =>
           \A i \in DOMAIN backend_mp_cache.value :
               backend_mp_cache.value[i].name \notin BlockList

(***************************************************************************)
(* C6                                                                      *)
(***************************************************************************)
\* C6: while a source cannot be read, no step of a handler discards or
\* replaces a cached directory (a refresh then fails and leaves it as it was);
\* the cache changes only to the directory of sources that were read, and a
\* request without refresh is answered from the cache as it stands.
C6_FailedRefreshKeepsCache ==
    /\ [][(/\ mp_cache.kind = "list"
           /\ pending.kind = "None"
           /\ (Unreadable(wxpy_pkl) \/ Unreadable(wxpy_puid_pkl)))
          => mp_cache' = mp_cache]_vars
    /\ [][mp_cache' # mp_cache =>
            /\ mp_cache'.kind = "list"
            /\ ~Unreadable(cache_src'[1]) /\ ~Unreadable(cache_src'[2])
            /\ mp_cache'.value = ExpectedDirectory(cache_src'[1], cache_src'[2])]_vars
    /\ [][\A req \in Requests :
            (mp_cache.kind = "list" /\ ~ForceReload(req) /\ Answers(req)) =>
                /\ mp_cache' = mp_cache
                /\ req.endpoint = "list_mps" => resp'.body = Listing(mp_cache.value)]_vars

\* a refresh failed on an unreadable source while a directory was cached
C6_Witness ==
    /\ mp_cache.kind = "list"
    /\ mp_cache.value # <<>>
    /\ resp.endpoint = "list_mps"
    /\ resp.status = 500
    /\ (Unreadable(wxpy_pkl) \/ Unreadable(wxpy_puid_pkl))

(***************************************************************************)
(* C7                                                                      *)
(***************************************************************************)
\* the cache holds the complete joined and filtered directory of the sources
\* it was loaded from
CacheComplete ==
    mp_cache.kind = "list" =>
        mp_cache.value = ExpectedDirectory(cache_src[1], cache_src[2])

\* C7: at every moment, also between a reload's reading of the sources and its
\* assignment, the cache is empty or a complete (joined, block-list-filtered)
\* directory, and every listing answered is that of the directory cached
\* before the step or of the one cached after it.
C7_OldOrNewSnapshot ==
    /\ []CacheComplete
    /\ [][\A req \in Requests : (req.endpoint = "list_mps" /\ Answers(req)) =>
             \/ mp_cache.kind = "list" /\ resp'.body = Listing(mp_cache.value)
             \/ resp'.body = Listing(mp_cache'.value)]_vars

\* a listing was answered from the old directory while a reload that will
\* replace it by another one was between reading and assigning
C7_Witness ==
    /\ pending.kind = "reload"
    /\ mp_cache.kind = "list"
    /\ resp.endpoint = "list_mps" /\ resp.status = 200 /\ resp.concurrent
    /\ resp.body = Listing(mp_cache.value)
    /\ ExpectedDirectory(pending.src[1], pending.src[2]) # mp_cache.value

(***************************************************************************)
(* C9                                                                      *)
(***************************************************************************)
\* the first cached account of that puid
AccountOf(mps, puid) == mps[First({ i \in DOMAIN mps : mps[i].puid = puid })]

\* C9: a feed or has-articles request for a puid that no cached account has is
\* answered 404 and the message store is not queried; for a puid of a cached
\* account the store is queried for that puid and the feed is rendered with
\* that account's name and signature.
C9_UnknownPuidNotFound ==
    [][\A req \in Requests :
         (req.endpoint \in {"get_rss_feed", "check_has_articles"} /\ Answers(req)) =>
            IF ~HasPuid(mp_cache'.value, req.puid)
            THEN /\ resp'.status = 404
                 /\ UNCHANGED <<call, rows, result, feed>>
            ELSE /\ resp'.status # 404
                 /\ call'.puid = req.puid
                 /\ call'.kind = IF req.endpoint = "get_rss_feed"
                                 THEN "get_messages_for_mp" ELSE "has_articles_for_mp"
                 /\ (req.endpoint = "get_rss_feed" /\ resp'.status = 200) =>
                        /\ feed'.kind = "xml"
                        /\ feed'.value.title = AccountOf(mp_cache'.value, req.puid).name
                        /\ feed'.value.description =
                             IF AccountOf(mp_cache'.value, req.puid).signature # ""
                             THEN <<AccountOf(mp_cache'.value, req.puid).signature>>
                             ELSE <<AccountOf(mp_cache'.value, req.puid).name,
                                    " - WeChat Public Account">>
                        /\ Len(feed'.value.items) = Len(result'.value)]_vars

\* a feed request for a puid no cached account has was answered 404 and the
\* store has not been queried
C9_Witness ==
    /\ mp_cache.kind = "list"
    /\ mp_cache.value # <<>>
    /\ resp.endpoint = "get_rss_feed"
    /\ resp.status = 404
    /\ ~HasPuid(mp_cache.value, resp.puid)
    /\ call = None

(***************************************************************************)
(* C11                                                                     *)
(***************************************************************************)
\* the stored time of the row the k-th returned message was read from
TimestampOf(k) == result.value[k].pub_date

\* C11: every item of a rendered feed has a pubDate element; it is the
\* message's timestamp when that is present and parses, and the render time
\* when the timestamp is absent, empty or does not parse.
C11_EveryItemHasPubDate ==
    (Returned /\ feed.kind = "xml") =>
        \A k \in DOMAIN feed.value.items :
            /\ feed.value.items[k].pubDate.present
            /\ feed.value.items[k].pubDate.text =
                   IF TimestampOf(k).form = "iso"
                   THEN [of |-> "message", t |-> TimestampOf(k).t]
                   ELSE [of |-> "now"]

(***************************************************************************)
(* C13                                                                     *)
(***************************************************************************)
SecureScheme(url) == url # <<>> /\ url[1] = "https://"

\* C13: the url of every returned message, and the link and guid of every
\* rendered item, begins with https://: a stored http:// url is output in its
\* normalized form.
C13_SecureSchemeOutput ==
    Returned =>
        /\ \A k \in DOMAIN result.value :
               /\ SecureScheme(result.value[k].url)
               /\ \E i \in DOMAIN rows :
                      /\ Qualifies(rows[i])
                      /\ result.value[k].url =
                             <<"https://">> \o Tail(StoredUrl(rows[i]))
        /\ feed.kind = "xml" =>
               \A k \in DOMAIN feed.value.items :
                   /\ SecureScheme(feed.value.items[k].link)
                   /\ SecureScheme(feed.value.items[k].guid)

(***************************************************************************)
(* C14                                                                     *)
(***************************************************************************)
\* the cached accounts a lookup by puid can mean
Candidates(puid) == { i \in DOMAIN mp_cache.value : mp_cache.value[i].puid = puid }

\* C14: in every cached directory, whatever account list and id mapping it was
\* loaded from, every puid is non-empty and belongs to one account only, so a
\* lookup by puid has at most one candidate.
C14_PuidsNonEmptyAndUnique ==
    mp_cache.kind = "list" =>
        /\ \A i \in DOMAIN mp_cache.value : mp_cache.value[i].puid # ""
        /\ \A i, j \in DOMAIN mp_cache.value :
               mp_cache.value[i].puid = mp_cache.value[j].puid => i = j
        /\ \A puid \in Puids : Cardinality(Candidates(puid)) <= 1

(***************************************************************************)
(* C12                                                                     *)
(***************************************************************************)
\* the label of the account at position k of the input list
LabelOf(k) ==
    IF opml.mps[k].puid \in DOMAIN opml.groups.items
    THEN opml.groups.items[opml.mps[k].puid]
    ELSE "All"

\* the input positions of the accounts labelled t
Labelled(t) == { k \in DOMAIN opml.mps : LabelOf(k) = t }

\* the feed outline of an account
OutlineOf(mp) ==
    [type |-> "rss", text |-> mp.name, title |-> mp.name, description |-> mp.signature,
     xmlUrl |-> <<"http://", "testserver", "/api/rss/", mp.puid>>,
     htmlUrl |-> <<"https://", "mp.weixin.qq.com">>]

\* the body is a list of non-empty groups with distinct labels; every account
\* is in the group of its label and the group holds its accounts in input
\* order; groups stand in the order their labels first occur in the input,
\* except that "All" stands last
GroupedInOrder ==
    LET body == opml.doc.body IN
    /\ \A g \in DOMAIN body :
           /\ "children" \in DOMAIN body[g]
           /\ body[g].children # <<>>
           /\ body[g].children =
                  [j \in 1..Cardinality(Labelled(body[g].text)) |->
                      OutlineOf(opml.mps[Kth(Labelled(body[g].text), j)])]
    /\ \A g, h \in DOMAIN body : body[g].text = body[h].text => g = h
    /\ \A k \in DOMAIN opml.mps : \E g \in DOMAIN body : body[g].text = LabelOf(k)
    /\ \A g, h \in DOMAIN body :
           g < h => /\ body[g].text # "All"
                    /\ body[h].text # "All" =>
                           First(Labelled(body[g].text)) < First(Labelled(body[h].text))

\* the body is the list of the accounts' outlines in input order
FlatInOrder ==
    opml.doc.body = [k \in DOMAIN opml.mps |-> OutlineOf(opml.mps[k])]

\* C12 (as stated): whenever a group map is supplied, the accounts are
\* grouped by label, in input order inside a group, the groups in
\* first-encountered order with "All" last, and no group is empty.
C12_GroupedWhenSupplied ==
    (opml.kind = "returned" /\ opml.groups.kind = "dict") => GroupedInOrder

\* C12 (amended): that grouping is what a group map with at least one entry
\* gives; an empty group map, like none, gives the flat list in input order.
C12_GroupedWhenNonEmpty ==
    opml.kind = "returned" =>
        IF opml.groups.kind = "dict" /\ DOMAIN opml.groups.items # {}
        THEN GroupedInOrder
        ELSE FlatInOrder

\* a document of several groups whose input began with an unmapped account
C12_Witness ==
    /\ opml.kind = "returned"
    /\ opml.groups.kind = "dict"
    /\ Len(opml.mps) >= 3
    /\ LabelOf(1) = "All"
    /\ opml.mps[1].puid \notin DOMAIN opml.groups.items
    /\ Len(opml.doc.body) >= 2
    /\ opml.doc.body[Len(opml.doc.body)].text = "All"
    /\ Len(opml.doc.body[Len(opml.doc.body)].children) >= 2

(***************************************************************************)
(* C15                                                                     *)
(***************************************************************************)
AllRequests == Requests \cup BatchRequests

\* the request asks for a refresh
CarriesRefresh(req) == req.endpoint = "list_mps" /\ req.refresh

\* the step is one of a request handler: the ingestion pipeline is not writing
HandlerStep == wxpy_pkl' = wxpy_pkl /\ wxpy_puid_pkl' = wxpy_puid_pkl

\* the step is a handler of req reading the account and mapping sources
ReadsSources(req) ==
    \/ pending'.kind = "reload" /\ pending'.req = req /\ ReloadBegins(req)
    \/ /\ pending'.kind = "None"
       /\ "error" \in DOMAIN resp' /\ resp'.endpoint = req.endpoint
       /\ ReloadFails(req)

\* the step is a handler of req that got its account list and answers
AnswersNow(req) ==
    /\ resp'.endpoint = req.endpoint
    /\ "puid" \in DOMAIN req => resp'.puid = req.puid
    /\ \/ pending' = pending /\ ServeFromCache(req)
       \/ pending.kind = "reload" /\ pending.req = req /\ ReloadCommits

PuidsOf(mps) == [i \in DOMAIN mps |-> mps[i].puid]

\* the accounts of mps an OPML request selects
Selected(mps, req) ==
    { i \in DOMAIN mps :
        req.puids = <<>> \/ \E k \in DOMAIN req.puids : req.puids[k] = mps[i].puid }

\* the response reports that the sources could not be loaded
LoadFailed(r) == "error" \in DOMAIN r

\* the response r to req is the one the directory mps gives
AnsweredFrom(req, r, mps) ==
    /\ r.endpoint = req.endpoint
    /\ req.endpoint = "list_mps" => r.status = 200 /\ r.body = Listing(mps)
    /\ req.endpoint \in {"get_rss_feed", "check_has_articles"} =>
           /\ r.puid = req.puid
           /\ r.status = 404 <=> ~HasPuid(mps, req.puid)
    /\ req.endpoint \in {"check_has_articles_batch", "get_article_counts_batch"} =>
           /\ r.status = 200
           /\ r.puids = PuidsOf(mps)
    /\ req.endpoint = "export_opml" =>
           /\ r.status = 200
           /\ r.body.body = [k \in 1..Cardinality(Selected(mps, req)) |->
                                OutlineOf(mps[Kth(Selected(mps, req), k)])]

\* C15: a handler reads the sources only when the cache is empty or its
\* request carries refresh=true; while a directory is cached every request
\* without refresh, of every endpoint, leaves the cache as it is and is
\* answered from it, whatever the sources hold by then; a load that fails on
\* an empty cache leaves it empty, and on an empty cache no request is
\* answered without a new load being attempted.
C15_CachedUntilRefresh ==
    /\ [][(HandlerStep /\ pending.kind = "None") =>
             \A req \in AllRequests :
                 ReadsSources(req) => (mp_cache.kind = "None" \/ CarriesRefresh(req))]_vars
    /\ [][(HandlerStep /\ mp_cache.kind = "list" /\ "endpoint" \in DOMAIN resp') =>
             \A req \in AllRequests :
                 (~CarriesRefresh(req) /\ AnswersNow(req)) =>
                     /\ mp_cache' = mp_cache
                     /\ AnsweredFrom(req, resp', mp_cache.value)]_vars
    /\ [][(HandlerStep /\ mp_cache.kind = "None" /\ pending.kind = "None") =>
              \/ pending'.kind = "reload" /\ mp_cache' = mp_cache
              \/ /\ LoadFailed(resp')
                 /\ (Unreadable(wxpy_pkl) \/ Unreadable(wxpy_puid_pkl))
                 /\ mp_cache'.kind = "None" /\ pending'.kind = "None"]_vars

\* an OPML request was answered from the cached directory after the sources
\* had changed: a refresh that has already read another directory from them
\* has not yet assigned it
C15_Witness ==
    /\ mp_cache.kind = "list"
    /\ mp_cache.value # <<>>
    /\ pending.kind = "reload"
    /\ ExpectedDirectory(pending.src[1], pending.src[2]) # mp_cache.value
    /\ resp.endpoint = "export_opml"
    /\ resp.status = 200
    /\ resp.concurrent
    /\ resp.body.body = [k \in DOMAIN mp_cache.value |-> OutlineOf(mp_cache.value[k])]

====
